---- MODULE Spec2Model ----
(***************************************************************************)
(* The storefront of flask_app.py as a state machine: the products,        *)
(* orders and order_items tables, the S3 bucket, the gateway's connection  *)
(* handle, the session cart, and one action per route handler.  Every      *)
(* handler runs as one step and leaves its response in `last`.             *)
(***************************************************************************)
EXTENDS Integers, Sequences, FiniteSets, TLC

VARIABLES
    products,     \* products table: row i has id i (AUTO_INCREMENT, no deletes)
    orders,       \* orders table, in insertion order
    order_items,  \* order_items table, in insertion order
    bucket,       \* keys of the objects stored in the S3 bucket
    connection,   \* db.connection: "none" (None), "up", "lost" (not is_connected())
    cart,         \* session['cart']: sequence of [id, quantity]
    uuids,        \* number of uuid4() tokens drawn so far
    last          \* the request handled by the latest step and its response

vars == <<products, orders, order_items, bucket, connection, cart, uuids, last>>

----------------------------------------------------------------------------
(* Bounds of the model *)

InitProducts == 2     \* rows of the products table at start
MaxStock == 1         \* largest stock_quantity of a row
MaxCartQuantity == 2  \* largest total quantity the session cart holds
MaxUuid == 1          \* uuid4() tokens drawn in a run
MaxPage == 2          \* largest page number requested

(* Program constants *)

HomeLimit == 8        \* LIMIT 8 of the home page query
PerPage == 12         \* per_page of the listing
RelatedLimit == 4     \* LIMIT 4 of the related products query

Categories == {"a", "b"}
Prices == {5, 10}
\* the quantities requests carry: some within every stock, one above it
\* (a negative quantity takes the path of 0: no stock is less than it)
Quantities == 0..(MaxStock + 1)
\* the ids requests carry: those of the rows at start, and one more
ProductIds == 1..(InitProducts + 1)
Pages == 0..MaxPage

----------------------------------------------------------------------------
(* Helpers *)

Min(a, b) == IF a < b THEN a ELSE b

\* the ids n, n-1, .., 1: newest row first
Newest(n) == [i \in 1..n |-> n + 1 - i]

\* LIMIT lim OFFSET off of a result
Limit(s, lim, off) == SubSeq(s, off + 1, Min(Len(s), off + lim))

RECURSIVE SumQuantity(_)
SumQuantity(c) ==
    IF c = <<>> THEN 0 ELSE Head(c).quantity + SumQuantity(Tail(c))

ProductRows ==
    [active : BOOLEAN, featured : BOOLEAN, category : Categories,
     stock_quantity : 0..MaxStock, price : Prices, image_url : {0}]

----------------------------------------------------------------------------
(* DatabaseManager *)

\* The outcome of execute_query on connection `conn`; `fault` is whether the
\* store faults on the statement, `value` what the statement yields.
\*   "raise": an exception other than mysql.connector.Error leaves the method
\*   "none" : the Error was caught and None returned
\*   "ok"   : the rows, or the row count
execute_query(conn, fault, value) ==
    IF conn = "none" THEN [kind |-> "raise", value |-> 0]
    ELSE IF conn = "lost" \/ fault THEN [kind |-> "none", value |-> 0]
    ELSE [kind |-> "ok", value |-> value]

\* connect(): a successful attempt replaces the handle, a failed one keeps it
connect(conn, ok) == IF ok THEN "up" ELSE conn

\* `not db.connection or not db.connection.is_connected()`
NotConnected(conn) == conn = "none" \/ conn = "lost"

----------------------------------------------------------------------------
(* The catalogue queries *)

\* SELECT .. WHERE featured = 1 ORDER BY created_at DESC LIMIT 8
SelectFeatured(p) ==
    Limit(SelectSeq(Newest(Len(p)), LAMBDA i : p[i].featured), HomeLimit, 0)

\* SELECT .. WHERE active = 1 ORDER BY created_at DESC LIMIT %s OFFSET %s
SelectActivePage(p, lim, off) ==
    Limit(SelectSeq(Newest(Len(p)), LAMBDA i : p[i].active), lim, off)

\* SELECT COUNT(*) as count FROM products WHERE active = 1
CountActive(p) == Cardinality({i \in DOMAIN p : p[i].active})

\* SELECT .. WHERE id = %s AND active = 1
SelectActiveById(p, id) == {i \in DOMAIN p : i = id /\ p[i].active}

\* WHERE category = %s AND id != %s AND active = 1
RelatedMatches(p, id) ==
    {i \in DOMAIN p : p[i].category = p[id].category /\ i # id /\ p[i].active}

\* .. LIMIT 4, with no ORDER BY: the store returns any 4 of the matches
SelectRelated(p, id) ==
    {S \in SUBSET RelatedMatches(p, id) :
        Cardinality(S) = Min(RelatedLimit, Cardinality(RelatedMatches(p, id)))}

----------------------------------------------------------------------------
(* The request handled by the latest step, and its response *)

NoRequest ==
    [route |-> "none", status |-> 0, view |-> "none", outcomes |-> <<>>,
     product_id |-> 0, quantity |-> 0, file |-> "none", shown |-> <<>>, related |-> {}, total |-> 0, cart_count |-> 0,
     order_id |-> 0, image_url |-> 0, reconnect |-> "no", metrics |-> {}]

Response(route, status, view, outcomes) ==
    [NoRequest EXCEPT !.route = route, !.status = status, !.view = view,
                      !.outcomes = outcomes]

----------------------------------------------------------------------------
(* GET /health *)

\* HealthCheck answering from the handle alone, the query's result unread
HealthCheckByHandle(conn, ok, fault) ==
    LET handle == IF NotConnected(conn) THEN connect(conn, ok) ELSE conn
        r == execute_query(handle, fault, <<1>>)
    IN  [status |-> IF handle = "up" THEN 200 ELSE 503,
         connection |-> handle,
         reconnect |-> IF NotConnected(conn)
                       THEN (IF ok THEN "ok" ELSE "failed") ELSE "no",
         outcomes |-> <<r.kind>>]

\* The handler on connection handle `conn`: `ok` is whether a connect()
\* would succeed, `fault` whether the store faults on SELECT 1.
HealthCheck(conn, ok, fault) ==
    LET handle == IF NotConnected(conn) THEN connect(conn, ok) ELSE conn
        r == execute_query(handle, fault, <<1>>)
    IN  [status |-> IF r.kind = "ok" THEN 200 ELSE 503,
         connection |-> handle,
         reconnect |-> IF NotConnected(conn)
                       THEN (IF ok THEN "ok" ELSE "failed") ELSE "no",
         outcomes |-> <<r.kind>>]

health_check ==
    \E ok \in BOOLEAN, fault \in BOOLEAN :
        LET res == HealthCheck(connection, ok, fault) IN
        /\ connection' = res.connection
        /\ last' = [Response("health", res.status, "json", res.outcomes)
                        EXCEPT !.reconnect = res.reconnect]
        /\ UNCHANGED <<products, orders, order_items, bucket, cart, uuids>>

(* The store's side: an established connection is lost *)

ConnectionLost ==
    /\ connection = "up"
    /\ connection' = "lost"
    /\ last' = NoRequest
    /\ UNCHANGED <<products, orders, order_items, bucket, cart, uuids>>

----------------------------------------------------------------------------
(* POST /add_to_cart *)

InCart(c, id) == \E i \in DOMAIN c : c[i].id = id

\* the first entry of the cart with this id (the loop breaks on it)
FirstIndex(c, id) == CHOOSE i \in DOMAIN c :
    c[i].id = id /\ \A j \in DOMAIN c : c[j].id = id => i <= j

\* MergeIntoCart without the search for an entry of the same id
MergeAlwaysAppends(c, id, quantity) ==
    Append(c, [id |-> id, quantity |-> quantity])

\* the for/else of add_to_cart: add to the entry found, else append one
MergeIntoCart(c, id, quantity) ==
    IF InCart(c, id)
    THEN [c EXCEPT ![FirstIndex(c, id)].quantity = @ + quantity]
    ELSE Append(c, [id |-> id, quantity |-> quantity])

\* InsufficientStock off by one: a quantity one above the stock passes
InsufficientStockOffByOne(stock_quantity, quantity) ==
    stock_quantity + 1 < quantity

\* `product[0]['stock_quantity'] < quantity`
InsufficientStock(stock_quantity, quantity) == stock_quantity < quantity

\* The handler on table p, handle conn and session cart c.  `malformed` is
\* a form whose product_id or quantity int() cannot read, `fault` whether
\* the store faults on the lookup.
AddToCart(p, conn, c, malformed, id, quantity, fault) ==
    LET r == execute_query(conn, fault, SelectActiveById(p, id)) IN
    IF malformed
    THEN [status |-> 500, cart |-> c, outcomes |-> <<>>]
    ELSE IF r.kind = "raise"
    THEN [status |-> 500, cart |-> c, outcomes |-> <<r.kind>>]
    ELSE IF r.kind = "none" \/ r.value = {}
    THEN [status |-> 404, cart |-> c, outcomes |-> <<r.kind>>]
    ELSE IF InsufficientStock(p[id].stock_quantity, quantity)
    THEN [status |-> 400, cart |-> c, outcomes |-> <<r.kind>>]
    ELSE [status |-> 200, cart |-> MergeIntoCart(c, id, quantity),
          outcomes |-> <<r.kind>>]

\* The forms a POST carries: a malformed one is one request, whatever else
\* it holds
AddForms ==
    {f \in [malformed : BOOLEAN, id : ProductIds, quantity : Quantities,
            fault : BOOLEAN] :
        f.malformed => (f.id = 1 /\ f.quantity = 0 /\ ~f.fault)}

add_to_cart ==
    \E f \in AddForms :
        LET malformed == f.malformed
            id == f.id
            quantity == f.quantity
            res == AddToCart(products, connection, cart, malformed, id,
                             quantity, f.fault) IN
        /\ SumQuantity(res.cart) <= MaxCartQuantity
        /\ cart' = res.cart
        /\ last' =
              IF malformed
              THEN Response("add_to_cart", res.status, "json", res.outcomes)
              ELSE IF res.status = 200
              THEN [Response("add_to_cart", 200, "json", res.outcomes)
                        EXCEPT !.product_id = id, !.quantity = quantity,
                               !.cart_count = Len(res.cart),
                               !.metrics = {"AddToCart"}]
              ELSE [Response("add_to_cart", res.status, "json", res.outcomes)
                        EXCEPT !.product_id = id, !.quantity = quantity]
        /\ UNCHANGED <<products, orders, order_items, bucket, connection, uuids>>

----------------------------------------------------------------------------
(* GET and POST /checkout *)

\* The outcomes of the inserts of one checkout: the Order insert, then one
\* Order Item insert per cart entry.  `named` is whether the form carries
\* the customer fields the orders table declares NOT NULL; `faults[k]`
\* whether the store faults on statement k for a reason of its own.  An
\* Order Item whose order row is absent violates its FOREIGN KEY.
OrderOutcome(conn, named, faults) ==
    execute_query(conn, faults[1] \/ ~named, 1).kind

ItemOutcome(conn, named, faults, k) ==
    execute_query(conn,
                  faults[k + 1] \/ OrderOutcome(conn, named, faults) # "ok",
                  1).kind

\* InsertedItems with a loop that stops after the first cart entry
InsertedItemsFirstOnly(c, order_id, conn, named, faults, k) ==
    IF k = 1 /\ Len(c) >= 1 /\ ItemOutcome(conn, named, faults, 1) = "ok"
    THEN <<[order_id |-> order_id, product_id |-> c[1].id,
            quantity |-> c[1].quantity]>>
    ELSE <<>>

\* the rows the items loop inserts for cart entries k..Len(c)
RECURSIVE InsertedItems(_, _, _, _, _, _)
InsertedItems(c, order_id, conn, named, faults, k) ==
    IF k > Len(c) THEN <<>>
    ELSE (IF ItemOutcome(conn, named, faults, k) = "ok"
          THEN <<[order_id |-> order_id, product_id |-> c[k].id,
                  quantity |-> c[k].quantity]>>
          ELSE <<>>)
         \o InsertedItems(c, order_id, conn, named, faults, k + 1)

\* the try/except of checkout: an exception leaving a gateway call is
\* answered with the error page, a returned None is not looked at
ProcessedView(outcomes) ==
    IF \E i \in DOMAIN outcomes : outcomes[i] = "raise"
    THEN "error.html" ELSE "order_success.html"

\* The POST handler on session cart c, handle conn and the two order
\* tables; `uuid` is the token uuid4() returns.
Checkout(c, conn, ord, items, uuid, named, faults) ==
    LET first == OrderOutcome(conn, named, faults)
        outcomes == <<first>> \o
            (IF first = "raise" THEN <<>>
             ELSE [k \in 1..Len(c) |-> ItemOutcome(conn, named, faults, k)])
    IN
    IF c = <<>>
    THEN [status |-> 302, view |-> "redirect:cart", cart |-> c,
          orders |-> ord, order_items |-> items, outcomes |-> <<>>]
    ELSE IF ProcessedView(outcomes) = "error.html"
    THEN [status |-> 500, view |-> "error.html", cart |-> c,
          orders |-> ord, order_items |-> items, outcomes |-> outcomes]
    ELSE [status |-> 200, view |-> "order_success.html", cart |-> <<>>,
          orders |-> IF first = "ok"
                     THEN Append(ord, [id |-> uuid, status |-> "pending"])
                     ELSE ord,
          order_items |->
              items \o InsertedItems(c, uuid, conn, named, faults, 1),
          outcomes |-> outcomes]

checkout ==
    \E method \in {"GET", "POST"} :
        IF method = "GET"
        THEN /\ last' = IF cart = <<>>
                        THEN Response("checkout_form", 302, "redirect:cart", <<>>)
                        ELSE Response("checkout_form", 200, "checkout.html", <<>>)
             /\ UNCHANGED <<products, orders, order_items, bucket,
                            connection, cart, uuids>>
        ELSE
          \E named \in BOOLEAN, faults \in [1..(Len(cart) + 1) -> BOOLEAN] :
            LET res == Checkout(cart, connection, orders, order_items,
                                uuids + 1, named, faults) IN
            /\ cart # <<>> => uuids < MaxUuid
            /\ uuids' = IF cart = <<>> THEN uuids ELSE uuids + 1
            /\ orders' = res.orders
            /\ order_items' = res.order_items
            /\ cart' = res.cart
            /\ last' =
                  IF res.view = "order_success.html"
                  THEN [Response("checkout", res.status, res.view, res.outcomes)
                            EXCEPT !.order_id = uuids + 1,
                                   !.metrics = {"Orders", "OrderValue"}]
                  ELSE Response("checkout", res.status, res.view, res.outcomes)
            /\ UNCHANGED <<products, bucket, connection>>

----------------------------------------------------------------------------
(* GET / *)

index ==
    \E fault \in BOOLEAN :
        LET r == execute_query(connection, fault, SelectFeatured(products)) IN
        /\ last' =
              IF r.kind = "raise"
              THEN Response("index", 500, "error.html", <<r.kind>>)
              ELSE [Response("index", 200, "index.html", <<r.kind>>) EXCEPT
                        !.shown = IF r.kind = "ok" THEN r.value ELSE <<>>,
                        !.metrics = {"PageViews"}]
        /\ UNCHANGED <<products, orders, order_items, bucket, connection,
                       cart, uuids>>

(* GET /products *)

\* offset = (page - 1) * per_page
Offset(page) == (page - 1) * PerPage

products_listing ==
    \E malformed \in BOOLEAN, page \in Pages, fault \in [1..2 -> BOOLEAN] :
        \* the store rejects a negative OFFSET as a syntax error
        LET r == execute_query(connection, fault[1] \/ Offset(page) < 0,
                     IF Offset(page) < 0 THEN <<>>
                     ELSE SelectActivePage(products, PerPage, Offset(page)))
            n == execute_query(connection, fault[2], CountActive(products))
        IN
        /\ last' =
              IF malformed
              THEN \* int() of a non-numeric page raises
                   Response("products", 500, "error.html", <<>>)
              ELSE IF r.kind = "raise"
              THEN Response("products", 500, "error.html", <<r.kind>>)
              ELSE [Response("products", 200, "products.html",
                             <<r.kind, n.kind>>) EXCEPT
                        !.shown = IF r.kind = "ok" THEN r.value ELSE <<>>,
                        !.total = IF n.kind = "ok" THEN n.value ELSE 0,
                        !.metrics = {"ProductPageViews"}]
        /\ UNCHANGED <<products, orders, order_items, bucket, connection,
                       cart, uuids>>

(* GET /product/<id> *)

product_detail ==
    \E id \in ProductIds, fault \in [1..2 -> BOOLEAN] :
        LET r == execute_query(connection, fault[1],
                               SelectActiveById(products, id)) IN
        /\ IF r.kind = "raise"
           THEN last' = [Response("product_detail", 500, "error.html",
                                  <<r.kind>>) EXCEPT !.product_id = id]
           ELSE IF r.kind = "none" \/ r.value = {}
           THEN last' = [Response("product_detail", 404, "error.html",
                                  <<r.kind>>) EXCEPT !.product_id = id]
           ELSE \E rows \in SelectRelated(products, id) :
                  LET q == execute_query(connection, fault[2], rows) IN
                  last' = [Response("product_detail", 200,
                                    "product_detail.html", <<r.kind, q.kind>>)
                               EXCEPT
                               !.product_id = id,
                               !.shown = <<id>>,
                               !.related = IF q.kind = "ok" THEN q.value ELSE {},
                               !.metrics = {"ProductDetailViews"}]
        /\ UNCHANGED <<products, orders, order_items, bucket, connection,
                       cart, uuids>>

----------------------------------------------------------------------------
(* S3Manager *)

\* upload_file: the URL of the object stored under the key made of `uuid`,
\* or 0 for the None it returns when the upload raises
upload_file(uuid, stored) == IF stored THEN uuid ELSE 0

(* GET and POST /admin/upload *)

\* The row of the INSERT: VALUES (.., 1, 0, ..) for active and featured
UploadedRow(category, stock_quantity, price, image_url) ==
    [active |-> TRUE, featured |-> FALSE, category |-> category,
     stock_quantity |-> stock_quantity, price |-> price,
     image_url |-> image_url]

\* The forms a POST carries.  `file` is "absent" (no 'image' part),
\* "unnamed" (an empty filename) or "named"; `stored` whether S3 takes the
\* object; `numeric` whether float() and int() can read the price and the
\* stock; `named` whether the form carries the name the table declares NOT
\* NULL; `fault` whether the store faults on the INSERT for a reason of its
\* own.  A field the handler does not get to read is left at one value.
UploadForms ==
    {f \in [file : {"absent", "unnamed", "named"}, stored : BOOLEAN,
            numeric : BOOLEAN, named : BOOLEAN, fault : BOOLEAN,
            category : Categories, stock_quantity : 0..MaxStock,
            price : Prices] :
        /\ f.file # "named" => f.stored
        /\ ~f.stored => f.numeric
        /\ ~f.numeric =>
              /\ f.named /\ ~f.fault
              /\ f.category = "a" /\ f.stock_quantity = 0 /\ f.price = 5}

\* The POST handler on table p, handle conn and bucket bkt; `uuid` is the
\* token uuid4() returns.  `drawn` is whether upload_file was reached.
AdminUpload(p, conn, bkt, uuid, f) ==
    LET url == upload_file(uuid, f.stored)
        r == execute_query(conn, f.fault \/ ~f.named, 1)
        kept == IF url # 0 THEN bkt \cup {url} ELSE bkt
        same == [status |-> 0, products |-> p, bucket |-> bkt, drawn |-> FALSE,
                 image_url |-> 0, outcomes |-> <<>>]
    IN
    IF f.file = "absent" \/ f.file = "unnamed"
    THEN [same EXCEPT !.status = 400]
    ELSE IF url = 0
    THEN [same EXCEPT !.status = 500, !.drawn = TRUE]
    ELSE IF ~f.numeric
    THEN [same EXCEPT !.status = 500, !.drawn = TRUE, !.bucket = kept,
                      !.image_url = url]
    ELSE IF r.kind = "raise"
    THEN [same EXCEPT !.status = 500, !.drawn = TRUE, !.bucket = kept,
                      !.image_url = url, !.outcomes = <<r.kind>>]
    ELSE [same EXCEPT !.status = 200, !.drawn = TRUE, !.bucket = kept,
                      !.image_url = url, !.outcomes = <<r.kind>>,
                      !.products =
                          IF r.kind = "ok"
                          THEN Append(p, UploadedRow(f.category,
                                         f.stock_quantity, f.price, url))
                          ELSE p]

admin_upload ==
    \E method \in {"GET", "POST"} :
        IF method = "GET"
        THEN /\ last' = Response("admin_upload_form", 200, "admin_upload.html", <<>>)
             /\ UNCHANGED <<products, orders, order_items, bucket,
                            connection, cart, uuids>>
        ELSE
          \E f \in UploadForms :
            LET res == AdminUpload(products, connection, bucket, uuids + 1, f)
            IN
            /\ res.drawn => uuids < MaxUuid
            /\ uuids' = IF res.drawn THEN uuids + 1 ELSE uuids
            /\ products' = res.products
            /\ bucket' = res.bucket
            /\ last' = [Response("admin_upload", res.status, "json", res.outcomes)
                            EXCEPT !.file = f.file,
                                   !.image_url = res.image_url]
            /\ UNCHANGED <<orders, order_items, connection, cart>>

----------------------------------------------------------------------------
(* GET /cart *)

\* SELECT .. FROM products WHERE id IN (..): the ids of the rows found
SelectByIds(p, ids) == {i \in DOMAIN p : i \in ids}

\* CartTotal adding the price of a found entry, its quantity unread
RECURSIVE CartTotalOfPrices(_, _, _)
CartTotalOfPrices(c, p, found) ==
    IF c = <<>> THEN 0
    ELSE (IF Head(c).id \in found THEN p[Head(c).id].price ELSE 0)
         + CartTotalOfPrices(Tail(c), p, found)

\* the loop over cart_items: `total += item['quantity'] * price` for the
\* entries whose id is a key of product_dict
RECURSIVE CartTotal(_, _, _)
CartTotal(c, p, found) ==
    IF c = <<>> THEN 0
    ELSE (IF Head(c).id \in found
          THEN Head(c).quantity * p[Head(c).id].price ELSE 0)
         + CartTotal(Tail(c), p, found)

\* The handler on table p, handle conn and session cart c; `fault` is
\* whether the store faults on the lookup.  An empty cart runs no query;
\* a None in place of the rows makes the dict comprehension raise.
CartView(p, conn, c, fault) ==
    LET r == execute_query(conn, fault,
                           SelectByIds(p, {c[i].id : i \in DOMAIN c})) IN
    IF c = <<>>
    THEN [status |-> 200, view |-> "cart.html", total |-> 0,
          outcomes |-> <<>>]
    ELSE IF r.kind # "ok"
    THEN [status |-> 500, view |-> "error.html", total |-> 0,
          outcomes |-> <<r.kind>>]
    ELSE [status |-> 200, view |-> "cart.html",
          total |-> CartTotal(c, p, r.value), outcomes |-> <<r.kind>>]

cart_view ==
    \E fault \in BOOLEAN :
        LET res == CartView(products, connection, cart, fault) IN
        /\ last' = [Response("cart", res.status, res.view, res.outcomes)
                        EXCEPT !.total = res.total]
        /\ UNCHANGED <<products, orders, order_items, bucket, connection,
                       cart, uuids>>

(* The store's side: the newest row of the products table is deleted; the *)
(* FOREIGN KEY of order_items keeps a row that an Order Item refers to    *)

RowDeleted ==
    /\ products # <<>>
    /\ \A i \in DOMAIN order_items :
          order_items[i].product_id # Len(products)
    /\ products' = SubSeq(products, 1, Len(products) - 1)
    /\ last' = NoRequest
    /\ UNCHANGED <<orders, order_items, bucket, connection, cart, uuids>>

----------------------------------------------------------------------------
(* The shop: cart and checkout, over every table of InitProducts rows that *)
(* differ in what add_to_cart reads of them                                *)

ShopRows ==
    {r \in ProductRows : ~r.featured /\ r.category = "a" /\ r.price = 5}

Init ==
    /\ products \in [1..InitProducts -> ShopRows]
    /\ orders = <<>>
    /\ order_items = <<>>
    /\ bucket = {}
    /\ connection \in {"none", "up"}
    /\ cart = <<>>
    /\ uuids = 0
    /\ last = NoRequest

Next ==
    \/ add_to_cart
    \/ checkout
    \/ health_check
    \/ ConnectionLost

Spec == Init /\ [][Next]_vars

(* The cart alone: every cart that add-to-cart requests build *)

CartNext ==
    \/ add_to_cart
    \/ health_check
    \/ ConnectionLost

SpecCart == Init /\ [][CartNext]_vars

(* Checkout alone, from every session cart add-to-cart can have built over *)
(* a table of stocked, active rows: entries of distinct ids, in any order  *)

StockedRow ==
    [active |-> TRUE, featured |-> FALSE, category |-> "a",
     stock_quantity |-> MaxStock, price |-> 5, image_url |-> 0]

CartEntries == [id : 1..InitProducts, quantity : 0..MaxCartQuantity]

Carts ==
    {c \in UNION {[1..n -> CartEntries] : n \in 0..InitProducts} :
        /\ \A i, j \in DOMAIN c : c[i].id = c[j].id => i = j
        /\ SumQuantity(c) <= MaxCartQuantity}

\* the carts of the shop are of this shape
CartShape == cart \in Carts

CheckoutInit ==
    /\ products = [i \in 1..InitProducts |-> StockedRow]
    /\ orders = <<>>
    /\ order_items = <<>>
    /\ bucket = {}
    /\ connection \in {"none", "up"}
    /\ cart \in Carts
    /\ uuids = 0
    /\ last = NoRequest

CheckoutNext ==
    \/ checkout
    \/ health_check
    \/ ConnectionLost

SpecCheckout == CheckoutInit /\ [][CheckoutNext]_vars

(* The catalogue: the browsing routes and the admin upload, over every     *)
(* table of InitProducts rows that differ in what the browsing routes read *)

CatalogRows ==
    {r \in ProductRows : r.stock_quantity = 0 /\ r.price = 5}

CatalogInit ==
    /\ products \in [1..InitProducts -> CatalogRows]
    /\ orders = <<>>
    /\ order_items = <<>>
    /\ bucket = {}
    /\ connection \in {"none", "up"}
    /\ cart = <<>>
    /\ uuids = 0
    /\ last = NoRequest

CatalogNext ==
    \/ index
    \/ products_listing
    \/ product_detail
    \/ admin_upload
    \/ health_check
    \/ ConnectionLost

SpecCatalog == CatalogInit /\ [][CatalogNext]_vars

(* The cart page alone, from every session cart add-to-cart can have built *)
(* over tables that differ in what the page reads of them; rows of the     *)
(* cart's products may since have been deleted                             *)

PricedRows ==
    {r \in ProductRows :
        ~r.featured /\ r.category = "a" /\ r.stock_quantity = MaxStock}

CartViewInit ==
    /\ products \in [1..InitProducts -> PricedRows]
    /\ orders = <<>>
    /\ order_items = <<>>
    /\ bucket = {}
    /\ connection \in {"none", "up"}
    /\ cart \in Carts
    /\ uuids = 0
    /\ last = NoRequest

CartViewNext ==
    \/ cart_view
    \/ RowDeleted
    \/ health_check
    \/ ConnectionLost

SpecCartView == CartViewInit /\ [][CartViewNext]_vars

----------------------------------------------------------------------------
(* The claims *)

Range(s) == {s[i] : i \in DOMAIN s}

AllOk(outcomes) == \A i \in DOMAIN outcomes : outcomes[i] = "ok"

\* the rows a step appended to a table
Added(before, after) == SubSeq(after, Len(before) + 1, Len(after))

C2_FaultAnswered500 ==
    (last.route = "checkout" /\ ~AllOk(last.outcomes)) =>
        (last.status = 500 /\ last.view = "error.html")

\* C3, as stated: a POST /add_to_cart with a quantity greater than the
\* product's current stock_quantity is answered 400 and leaves the session
\* cart unchanged; and no add-to-cart request changes a stock_quantity.
C3_OverStockAnswered400 ==
    [][last'.route = "add_to_cart" =>
         /\ products' = products
         /\ (/\ last'.product_id \in DOMAIN products
             /\ last'.quantity > products[last'.product_id].stock_quantity)
            => (last'.status = 400 /\ cart' = cart)]_vars

\* C3, amended: a POST /add_to_cart with a quantity greater than the
\* product's current stock_quantity is rejected (400, 404 or 500) and leaves
\* the session cart unchanged, and it is answered 400 when the product is
\* active and the lookup returned its row; and no add-to-cart request
\* changes a stock_quantity.
C3_OverStockRejected ==
    [][last'.route = "add_to_cart" =>
         /\ products' = products
         /\ (/\ last'.product_id \in DOMAIN products
             /\ last'.quantity > products[last'.product_id].stock_quantity)
            => /\ cart' = cart
               /\ last'.status \in {400, 404, 500}
               /\ (/\ products[last'.product_id].active
                   /\ last'.outcomes = <<"ok">>)
                  => last'.status = 400]_vars

\* a request for more than the stock of an active product was answered 400
C3_Witness ==
    /\ last.route = "add_to_cart" /\ last.status = 400
    /\ last.product_id \in DOMAIN products
    /\ products[last.product_id].active
    /\ last.quantity > products[last.product_id].stock_quantity

\* C4: after any sequence of accepted POST /add_to_cart requests the session
\* cart holds at most one entry per product id: adding an id already in the
\* cart increases that entry's quantity by the added amount and leaves the
\* number of entries (cart_count) unchanged, adding a new id appends exactly
\* one entry.
C4_OneEntryPerProduct ==
    [][(last'.route = "add_to_cart" /\ last'.status = 200) =>
         /\ \A i, j \in DOMAIN cart' : cart'[i].id = cart'[j].id => i = j
         /\ last'.cart_count = Len(cart')
         /\ IF \E i \in DOMAIN cart : cart[i].id = last'.product_id
            THEN /\ Len(cart') = Len(cart)
                 /\ \A i \in DOMAIN cart :
                       /\ cart'[i].id = cart[i].id
                       /\ cart'[i].quantity =
                             IF cart[i].id = last'.product_id
                             THEN cart[i].quantity + last'.quantity
                             ELSE cart[i].quantity
            ELSE cart' = Append(cart, [id |-> last'.product_id,
                                       quantity |-> last'.quantity])]_vars

\* a second accepted add of an id has grown its entry, beside another entry
C4_Witness ==
    /\ last.route = "add_to_cart" /\ last.status = 200
    /\ Len(cart) = 2 /\ last.cart_count = 2
    /\ last.quantity > 0
    /\ \E i \in DOMAIN cart :
          cart[i].id = last.product_id /\ cart[i].quantity > last.quantity

\* C5: the products rendered by GET / are all active and featured, at most
\* 8 of them, and the products rendered by GET /products are all active; a
\* product with active = false is returned by neither route.
C5_OnlyActiveShown ==
    /\ (last.route = "index" /\ last.status = 200) =>
          /\ Len(last.shown) <= HomeLimit
          /\ \A i \in Range(last.shown) :
                products[i].active /\ products[i].featured
    /\ (last.route = "products" /\ last.status = 200) =>
          \A i \in Range(last.shown) : products[i].active

\* C6: in every state reachable through add-to-cart and checkout requests,
\* every Order Item row created by checkout has quantity > 0.
C6_PositiveItemQuantity ==
    \A i \in DOMAIN order_items : order_items[i].quantity > 0

\* C7: execute_query never raises to its caller: on any underlying fault,
\* a missing or lost connection included, it returns None.
C7_NeverRaises ==
    \A i \in DOMAIN last.outcomes : last.outcomes[i] # "raise"

\* C8: GET /product/{id} returns 404 with no product data whenever the id
\* does not exist or the product is inactive, and renders the detail view
\* only for an existing active product, with at most 4 related products
\* that are active, share its category and differ from it.
C8_DetailOr404 ==
    last.route = "product_detail" =>
        /\ (\/ last.product_id \notin DOMAIN products
            \/ ~products[last.product_id].active)
           => (last.status = 404 /\ last.shown = <<>> /\ last.related = {})
        /\ last.view = "product_detail.html" =>
              /\ last.product_id \in DOMAIN products
              /\ products[last.product_id].active
              /\ last.shown = <<last.product_id>>
              /\ Cardinality(last.related) <= RelatedLimit
              /\ \A j \in last.related :
                    /\ products[j].active
                    /\ products[j].category =
                          products[last.product_id].category
                    /\ j # last.product_id

\* C9: GET /health answers 200 only when SELECT 1 succeeds in that request,
\* after attempting a reconnect when the connection is absent or lost; in
\* every other case, an exception in the check included, it answers 503.
C9_HealthyOnlyIfQueried ==
    [][last'.route = "health" =>
         /\ last'.status \in {200, 503}
         /\ last'.status = 200 <=> last'.outcomes = <<"ok">>
         /\ last'.status = 200 => connection' = "up"
         /\ NotConnected(connection) <=> last'.reconnect # "no"
         /\ last'.reconnect = "failed" => last'.status = 503]_vars

\* a health check has reconnected and answered 200
C9_Witness ==
    /\ last.route = "health" /\ last.status = 200
    /\ last.reconnect = "ok" /\ last.outcomes = <<"ok">>

\* C10: POST /admin/upload answers 400 and neither uploads nor inserts when
\* the image file is missing or has an empty filename; answers 500 when the
\* upload fails or the Product insert fails; and answers success only when
\* a new Product row with active = true and featured = false has been
\* inserted carrying the URL the upload returned.
C10_UploadAnswers ==
    [][last'.route = "admin_upload" =>
         /\ last'.file \in {"absent", "unnamed"} =>
               /\ last'.status = 400
               /\ bucket' = bucket /\ products' = products
         /\ (last'.file = "named" /\ last'.image_url = 0) => last'.status = 500
         /\ (last'.outcomes # <<>> /\ ~AllOk(last'.outcomes)) =>
               last'.status = 500
         /\ last'.status = 200 =>
               /\ Len(products') = Len(products) + 1
               /\ products'[Len(products')].active
               /\ ~products'[Len(products')].featured
               /\ products'[Len(products')].image_url = last'.image_url
               /\ last'.image_url \in bucket']_vars

\* the quantity the cart holds of product id
RECURSIVE QuantityOf(_, _)
QuantityOf(c, id) ==
    IF c = <<>> THEN 0
    ELSE (IF Head(c).id = id THEN Head(c).quantity ELSE 0)
         + QuantityOf(Tail(c), id)

\* the sum, over the rows 1..n of the table, of the price of the row times
\* the quantity the cart holds of it
RECURSIVE TotalOverRows(_, _, _)
TotalOverRows(c, p, n) ==
    IF n = 0 THEN 0
    ELSE p[n].price * QuantityOf(c, n) + TotalOverRows(c, p, n - 1)

\* the table of the spec's example: products 1 and 3 priced 10 and 5
ExampleTable ==
    [i \in 1..3 |->
        [active |-> TRUE, featured |-> FALSE, category |-> "a",
         stock_quantity |-> 2, price |-> IF i = 1 THEN 10 ELSE 5,
         image_url |-> 0]]

ExampleCart == <<[id |-> 1, quantity |-> 2], [id |-> 3, quantity |-> 1]>>

\* C11: the grand total GET /cart renders is the sum, over the cart entries
\* whose product id resolves to a product row, of quantity times that
\* product's current price; an entry whose product no longer resolves adds
\* nothing (entries (1, qty 2) and (3, qty 1) at prices 10 and 5 give 25).
C11_CartTotal ==
    /\ (last.route = "cart" /\ last.status = 200) =>
          last.total = TotalOverRows(cart, products, Len(products))
    /\ CartView(ExampleTable, "up", ExampleCart, FALSE).total = 25
    /\ CartView(SubSeq(ExampleTable, 1, 2), "up", ExampleCart, FALSE).total
          = 20

\* the cart page was rendered for a cart of two entries, one of a product
\* still in the table and one of a product deleted since
C11_Witness ==
    /\ last.route = "cart" /\ last.status = 200
    /\ Len(cart) = 2 /\ last.total > 0
    /\ \E i, j \in DOMAIN cart :
          /\ cart[i].id \in DOMAIN products /\ cart[i].quantity > 0
          /\ cart[j].id \notin DOMAIN products /\ cart[j].quantity > 0

====
